---- MODULE Spec2Model ----
(***************************************************************************)
(* Model of src/app.py: the NLP analysis helper perform_nlp_analysis, the  *)
(* aggregation helper process_news_data and the two API handlers           *)
(* analyze_topic (/api/analyze) and latest_news (/api/latest).             *)
(*                                                                         *)
(* Python strings are sequences of one-character strings, so that slicing  *)
(* (text[:512]) and f-string concatenation are computed.  Python None is   *)
(* NoneV, a value that is no such sequence.  A float score s in 0.0..1.0   *)
(* is the integer 1000 * s.                                                *)
(***************************************************************************)
EXTENDS Integers, Sequences, FiniteSets, TLC

VARIABLES
    nlp_ner,            \* the module-level spaCy model: NerModel, or NoneV after OSError
    pc,                 \* position of the request handler
    current_user,       \* flask_login's current_user of the current request
    api_url,            \* the query of the outbound call of the current request
    upstream,           \* what requests.get produced for the current request
    outbound,           \* number of requests.get calls made for the current request
    news_data,          \* the list process_news_data iterates over
    i,                  \* enumerate index of process_news_data (0-based)
    analyzed_articles,  \* the list process_news_data builds
    nlpCalls,           \* log of the perform_nlp_analysis calls of the current request
    responses,          \* the (status, body) pairs returned for the current request
    nlpIn,              \* SpecNlp: arguments and model outcomes of one perform_nlp_analysis call
    nlpOut              \* SpecNlp: what that call produced

vars == <<nlp_ner, pc, current_user, api_url, upstream, outbound, news_data, i, analyzed_articles,
          nlpCalls, responses, nlpIn, nlpOut>>

handlerVars == <<pc, current_user, api_url, upstream, outbound, news_data, i, analyzed_articles,
                 nlpCalls, responses>>

----------------------------------------------------------------------------
(* Bounds of the model *)

MaxArticles == 2
MaxEnts == 2

----------------------------------------------------------------------------
(* Python values *)

NoneV == <<"None">>

\* A dict whose keys may be missing is a function on its keys
EmptyDict == <<>>

OptionalKey(k, values) == {EmptyDict} \cup {k :> v : v \in values}

\* d.get(k, default) and d.get(k)
GetDefault(d, k, default) == IF k \in DOMAIN d THEN d[k] ELSE default

Get(d, k) == GetDefault(d, k, NoneV)

\* The outcome of a call: an exception, or a value
Raise == [raised |-> TRUE]

Returned(v) == [raised |-> FALSE, value |-> v]

Truthy(v) == v /= NoneV /\ v /= <<>>

\* a or b
PyOr(a, b) == IF Truthy(a) THEN a ELSE b

\* str(v) as an f-string field formats it
PyStr(v) == IF v = NoneV THEN <<"N", "o", "n", "e">> ELSE v

Min(a, b) == IF a <= b THEN a ELSE b

RECURSIVE Perms(_)
Perms(S) ==
    IF S = {} THEN {<<>>}
    ELSE UNION {{<<x>> \o p : p \in Perms(S \ {x})} : x \in S}

Range(s) == {s[n] : n \in 1..Len(s)}

SeqsUpTo(S, n) == UNION {[1..k -> S] : k \in 0..n}

----------------------------------------------------------------------------
(* perform_nlp_analysis *)

SentimentThreshold == 950
MaxSentimentChars == 512
UnknownScore == 0

NerModel == <<"en_core_web_sm">>

\* text[:512]
SentimentInput(text) == SubSeq(text, 1, Min(Len(text), MaxSentimentChars))

\* SentimentStage with the comparison score <= 0.95
SentimentStage_ThresholdInclusive(clf) ==
    IF clf.raised
    THEN [label |-> "UNKNOWN", score |-> UnknownScore]
    ELSE IF clf.value.score <= SentimentThreshold
         THEN [label |-> "NEUTRAL", score |-> clf.value.score]
         ELSE [label |-> clf.value.label, score |-> clf.value.score]

\* Lines 140-145.  clf is the outcome of sentiment_pipeline(text[:512])[0]:
\* Raise, or Returned([label, score]).
SentimentStage(clf) ==
    IF clf.raised
    THEN [label |-> "UNKNOWN", score |-> UnknownScore]
    ELSE IF clf.value.score < SentimentThreshold
         THEN [label |-> "NEUTRAL", score |-> clf.value.score]
         ELSE [label |-> clf.value.label, score |-> clf.value.score]

EmptyEntities == [PERSON |-> <<>>, ORG |-> <<>>, GPE |-> <<>>]

\* for ent in doc.ents: if ent.label_ in entities: entities[ent.label_].append(ent.text)
RECURSIVE CollectEntities(_, _)
CollectEntities(entities, ents) ==
    IF ents = <<>> THEN entities
    ELSE LET ent == Head(ents)
             upd == IF ent.label_ \in DOMAIN entities
                    THEN [entities EXCEPT ![ent.label_] = Append(@, ent.text)]
                    ELSE entities
         IN CollectEntities(upd, Tail(ents))

\* DedupOrders without the set(): the list as collected
DedupOrders_NoSet(lst) == {lst}

\* list(set(lst)): the distinct elements of lst, in an order Python does not fix
DedupOrders(lst) == Perms(Range(lst))

\* EntityStage without the guard "if nlp_ner:": calling None raises TypeError
EntityStage_NoGuard(ner) ==
    IF nlp_ner = NoneV \/ ner.raised
    THEN {Raise}
    ELSE LET col == CollectEntities(EmptyEntities, ner.value)
         IN {Returned([PERSON |-> p, ORG |-> o, GPE |-> g]) :
               p \in DedupOrders(col.PERSON),
               o \in DedupOrders(col.ORG),
               g \in DedupOrders(col.GPE)}

\* Lines 147-154.  ner is the outcome of nlp_ner(text), read only when the
\* model is loaded: Raise, or Returned(doc.ents).  The value is the set of
\* outcomes the block can have: Raise, or Returned(entities).
EntityStage(ner) ==
    IF nlp_ner /= NoneV
    THEN IF ner.raised
         THEN {Raise}
         ELSE LET col == CollectEntities(EmptyEntities, ner.value)
              IN {Returned([PERSON |-> p, ORG |-> o, GPE |-> g]) :
                    p \in DedupOrders(col.PERSON),
                    o \in DedupOrders(col.ORG),
                    g \in DedupOrders(col.GPE)}
    ELSE {Returned(EmptyEntities)}

\* perform_nlp_analysis without the try/except around the classifier call
perform_nlp_analysis_NoTry(text, clf, ner) ==
    IF clf.raised
    THEN {Raise}
    ELSE {IF e.raised THEN Raise
          ELSE Returned([sentiment |-> SentimentStage(clf), entities |-> e.value]) :
            e \in EntityStage(ner)}

\* perform_nlp_analysis with the classifier's failure ending the function early
perform_nlp_analysis_EarlyReturn(text, clf, ner) ==
    IF clf.raised
    THEN {Returned([sentiment |-> SentimentStage(clf), entities |-> EmptyEntities])}
    ELSE {IF e.raised THEN Raise
          ELSE Returned([sentiment |-> SentimentStage(clf), entities |-> e.value]) :
            e \in EntityStage(ner)}

\* The outcomes of perform_nlp_analysis(text) when the classifier call
\* produced clf and the recognizer call produced ner.
perform_nlp_analysis(text, clf, ner) ==
    LET sentiment_result == SentimentStage(clf)
    IN {IF e.raised THEN Raise
        ELSE Returned([sentiment |-> sentiment_result, entities |-> e.value]) :
          e \in EntityStage(ner)}

----------------------------------------------------------------------------
(* The two models' outcomes *)

Labels == {"POSITIVE", "NEGATIVE"}
Scores == {600, 949, 950, 970}
ClfOutcomes == {Raise} \cup {Returned(c) : c \in [label : Labels, score : Scores]}

EntTexts == {<<"A">>, <<"B">>}
EntLabels == {"PERSON", "ORG", "GPE", "DATE"}
Ents == [text : EntTexts, label_ : EntLabels]
NerOutcomes == {Raise} \cup {Returned(d) : d \in SeqsUpTo(Ents, MaxEnts)}

\* nlp_ner(text) is not called when the model is not loaded
NotCalled == [called |-> FALSE, raised |-> FALSE]
NerCallOutcomes(S) == IF nlp_ner /= NoneV THEN S ELSE {NotCalled}

----------------------------------------------------------------------------
(* process_news_data *)

ContentValues == {NoneV, <<>>, <<"c">>}
DescriptionValues == {NoneV, <<>>, <<"d">>}
Articles == [title : {<<"T">>}, content : ContentValues,
             description : DescriptionValues, publishedAt : {<<"2", "4">>}]

\* The outcomes the models are given per article of a request
HandlerClf == {Raise, Returned([label |-> "POSITIVE", score |-> 970]),
               Returned([label |-> "POSITIVE", score |-> 600])}
HandlerNer == {Raise, Returned(<<>>),
               Returned(<<[text |-> <<"A">>, label_ |-> "PERSON"],
                          [text |-> <<"A">>, label_ |-> "PERSON"]>>)}

\* ResolveContent without the description fallback
ResolveContent_ContentOnly(article_data) ==
    PyOr(Get(article_data, "content"), <<>>)

\* ResolveContent with the operands of "or" exchanged
ResolveContent_DescriptionFirst(article_data) ==
    PyOr(PyOr(Get(article_data, "description"), Get(article_data, "content")), <<>>)

\* article_data.get('content') or article_data.get('description') or ""
ResolveContent(article_data) ==
    PyOr(PyOr(Get(article_data, "content"), Get(article_data, "description")), <<>>)

\* Entry with enumerate(news_data, 1)
Entry_OneBased(idx, article_data, content, analysis_results) ==
    [id |-> idx + 1,
     title |-> Get(article_data, "title"),
     content |-> content,
     published_at |-> Get(article_data, "publishedAt"),
     sentiment |-> analysis_results.sentiment,
     entities |-> analysis_results.entities]

\* The dict appended at lines 165-173
Entry(idx, article_data, content, analysis_results) ==
    [id |-> idx,
     title |-> Get(article_data, "title"),
     content |-> content,
     published_at |-> Get(article_data, "publishedAt"),
     sentiment |-> analysis_results.sentiment,
     entities |-> analysis_results.entities]

\* One perform_nlp_analysis call, as the log keeps it
NlpCall(idx, text, clf, ner) == [index |-> idx, text |-> text, clf |-> clf, ner |-> ner]

----------------------------------------------------------------------------
(* analyze_topic and latest_news *)

ApiKey == <<"E", "n", "t", "e", "r", " ", "Y", "o", "u", "r", " ", "A", "P", "I", " ", "H", "e", "r", "e">>
DefaultTopic == <<"d", "e", "f", "a", "u", "l", "t", " ", "t", "o", "p", "i", "c">>
NewsApiErrorPrefix == <<"N", "e", "w", "s", " ", "A", "P", "I", " ", "E", "r", "r", "o", "r", ":", " ">>
UnknownApiError == <<"U", "n", "k", "n", "o", "w", "n", " ", "A", "P", "I", " ", "e", "r", "r", "o", "r">>
ConnectPrefix == <<"F", "a", "i", "l", "e", "d", " ", "t", "o", " ", "c", "o", "n", "n", "e", "c", "t", " ", "t", "o", " ", "t", "h", "e", " ", "n", "e", "w", "s", " ", "s", "e", "r", "v", "i", "c", "e", ":", " ">>
InternalPrefix == <<"A", "n", " ", "i", "n", "t", "e", "r", "n", "a", "l", " ", "s", "e", "r", "v", "e", "r", " ", "e", "r", "r", "o", "r", " ", "o", "c", "c", "u", "r", "r", "e", "d", ":", " ">>

\* str(e) of a caught exception
ExcStr == <<"e">>

\* request.args, and current_user.language
RequestArgs == {EmptyDict, "keyword" :> <<"k">>}
Hindi == <<"H", "i", "n", "d", "i">>
Languages == {Hindi, <<"E", "n", "g", "l", "i", "s", "h">>}

OkStatus == <<"o", "k">>
ErrorStatus == <<"e", "r", "r", "o", "r">>
StatusCodes == {200, 429}

\* The JSON objects the news service answers with
Payloads ==
    {s @@ m @@ a :
       s \in OptionalKey("status", {OkStatus, ErrorStatus}),
       m \in OptionalKey("message", {NoneV, <<"q">>}),
       a \in OptionalKey("articles", SeqsUpTo(Articles, MaxArticles))}

\* requests.get(api_url): RequestException, or a response whose json() raises or returns
FetchOutcomes ==
    {Raise} \cup
    {Returned([status_code |-> c, json |-> j]) :
       c \in StatusCodes, j \in {Raise} \cup {Returned(p) : p \in Payloads}}

NoUpstream == [raised |-> FALSE, value |-> NoneV]

\* jsonify(body), status
Response(status, body) == [status |-> status, body |-> body]

\* jsonify({"error": f"<prefix>{detail}"}), status
ErrorResponse(status, prefix, detail) ==
    Response(status, [error |-> prefix \o PyStr(detail)])

\* lang_code = 'hi' if current_user.language == 'Hindi' else 'en'
LangCode(language) == IF language = Hindi THEN <<"h", "i">> ELSE <<"e", "n">>

\* Lines 180-184
AnalyzeUrl(args, language) ==
    [apiKey |-> ApiKey,
     q |-> GetDefault(args, "keyword", DefaultTopic),
     language |-> LangCode(language),
     sortBy |-> NoneV]

\* Lines 209-210
LatestUrl ==
    [apiKey |-> ApiKey, q |-> <<"n", "e", "w", "s">>, language |-> <<"e", "n">>,
     sortBy |-> <<"p", "u", "b", "l", "i", "s", "h", "e", "d", "A", "t">>]

\* response.raise_for_status() raises HTTPError
IsHttpError(status_code) == 400 <= status_code /\ status_code < 600

nlpVars == <<nlpIn, nlpOut>>

\* login_manager.login_view (line 55)
LoginView == <<"l", "o", "g", "i", "n">>

\* current_user: the anonymous user, or a logged-in User with its language
Anonymous == [is_authenticated |-> FALSE]
Users == {Anonymous} \cup {[is_authenticated |-> TRUE, language |-> l] : l \in Languages}

\* login_manager.unauthorized() with a login_view: a redirect to that view
Unauthorized == Response(302, [redirect |-> LoginView])

\* @login_required passes; analyze_topic up to its requests.get
AnalyzeTopicBegin ==
    /\ pc = "idle"
    /\ \E args \in RequestArgs, user \in Users :
         /\ user.is_authenticated
         /\ current_user' = user
         /\ api_url' = AnalyzeUrl(args, user.language)
    /\ pc' = "get"
    /\ UNCHANGED <<nlp_ner, upstream, outbound, news_data, i, analyzed_articles,
                   nlpCalls, responses, nlpVars>>

\* @login_required on analyze_topic rejects: the body is not entered
AnalyzeTopicUnauthorized ==
    /\ pc = "idle"
    /\ \E user \in Users :
         /\ ~user.is_authenticated
         /\ current_user' = user
    /\ responses' = Append(responses, Unauthorized)
    /\ pc' = "done"
    /\ UNCHANGED <<nlp_ner, api_url, upstream, outbound, news_data, i,
                   analyzed_articles, nlpCalls, nlpVars>>

\* @login_required passes; latest_news up to its requests.get
LatestNewsBegin ==
    /\ pc = "idle"
    /\ \E user \in Users :
         /\ user.is_authenticated
         /\ current_user' = user
    /\ api_url' = LatestUrl
    /\ pc' = "get"
    /\ UNCHANGED <<nlp_ner, upstream, outbound, news_data, i, analyzed_articles,
                   nlpCalls, responses, nlpVars>>

\* @login_required on latest_news rejects: the body is not entered
LatestNewsUnauthorized ==
    /\ pc = "idle"
    /\ \E user \in Users :
         /\ ~user.is_authenticated
         /\ current_user' = user
    /\ responses' = Append(responses, Unauthorized)
    /\ pc' = "done"
    /\ UNCHANGED <<nlp_ner, api_url, upstream, outbound, news_data, i,
                   analyzed_articles, nlpCalls, nlpVars>>

\* GetRaises with the call tried again after a failure
GetRaises_Retry ==
    /\ pc = "get"
    /\ upstream' = Raise
    /\ outbound' = outbound + 1
    /\ UNCHANGED <<nlp_ner, current_user, pc, api_url, news_data, i, analyzed_articles, nlpCalls,
                   responses, nlpVars>>

\* requests.get raises: except RequestException, lines 199-200 and 225-226
GetRaises ==
    /\ pc = "get"
    /\ upstream' = Raise
    /\ outbound' = outbound + 1
    /\ responses' = Append(responses, ErrorResponse(500, ConnectPrefix, ExcStr))
    /\ pc' = "done"
    /\ UNCHANGED <<nlp_ner, current_user, api_url, news_data, i, analyzed_articles, nlpCalls, nlpVars>>

\* raise_for_status raises HTTPError, a RequestException
GetHttpError ==
    /\ pc = "get"
    /\ \E f \in FetchOutcomes :
         /\ ~f.raised
         /\ IsHttpError(f.value.status_code)
         /\ upstream' = f
    /\ outbound' = outbound + 1
    /\ responses' = Append(responses, ErrorResponse(500, ConnectPrefix, ExcStr))
    /\ pc' = "done"
    /\ UNCHANGED <<nlp_ner, current_user, api_url, news_data, i, analyzed_articles, nlpCalls, nlpVars>>

\* response.json() raises: requests' JSONDecodeError is a RequestException
\* from requests 2.27 on and a plain ValueError before
GetJsonError ==
    /\ pc = "get"
    /\ \E f \in FetchOutcomes :
         /\ ~f.raised
         /\ ~IsHttpError(f.value.status_code)
         /\ f.value.json.raised
         /\ upstream' = f
    /\ outbound' = outbound + 1
    /\ \E prefix \in {ConnectPrefix, InternalPrefix} :
         responses' = Append(responses, ErrorResponse(500, prefix, ExcStr))
    /\ pc' = "done"
    /\ UNCHANGED <<nlp_ner, current_user, api_url, news_data, i, analyzed_articles, nlpCalls, nlpVars>>

\* Lines 191-193 and 217-219
GetNotOk ==
    /\ pc = "get"
    /\ \E f \in FetchOutcomes :
         /\ ~f.raised
         /\ ~IsHttpError(f.value.status_code)
         /\ ~f.value.json.raised
         /\ LET response_data == f.value.json.value
                error_message == GetDefault(response_data, "message", UnknownApiError)
            IN /\ Get(response_data, "status") /= OkStatus
               /\ responses' = Append(responses,
                                      ErrorResponse(400, NewsApiErrorPrefix, error_message))
         /\ upstream' = f
    /\ outbound' = outbound + 1
    /\ pc' = "done"
    /\ UNCHANGED <<nlp_ner, current_user, api_url, news_data, i, analyzed_articles, nlpCalls, nlpVars>>

\* Lines 195-196 and 221-222, up to the loop of process_news_data
GetOk ==
    /\ pc = "get"
    /\ \E f \in FetchOutcomes :
         /\ ~f.raised
         /\ ~IsHttpError(f.value.status_code)
         /\ ~f.value.json.raised
         /\ LET response_data == f.value.json.value
            IN /\ Get(response_data, "status") = OkStatus
               /\ news_data' = GetDefault(response_data, "articles", <<>>)
         /\ upstream' = f
    /\ outbound' = outbound + 1
    /\ i' = 0
    /\ analyzed_articles' = <<>>
    /\ pc' = "process"
    /\ UNCHANGED <<nlp_ner, current_user, api_url, nlpCalls, responses, nlpVars>>

\* if not content: continue
ProcessSkip ==
    /\ pc = "process"
    /\ i < Len(news_data)
    /\ ~Truthy(ResolveContent(news_data[i + 1]))
    /\ i' = i + 1
    /\ UNCHANGED <<nlp_ner, current_user, pc, api_url, upstream, outbound, news_data,
                   analyzed_articles, nlpCalls, responses, nlpVars>>

\* Lines 164-173: perform_nlp_analysis returns and the entry is appended
ProcessAnalyze ==
    /\ pc = "process"
    /\ i < Len(news_data)
    /\ LET article_data == news_data[i + 1]
           content == ResolveContent(article_data)
       IN /\ Truthy(content)
          /\ \E clf \in HandlerClf, ner \in NerCallOutcomes(HandlerNer) :
               \E r \in perform_nlp_analysis(content, clf, ner) :
                 /\ ~r.raised
                 /\ nlpCalls' = Append(nlpCalls, NlpCall(i, content, clf, ner))
                 /\ analyzed_articles' =
                      Append(analyzed_articles, Entry(i, article_data, content, r.value))
    /\ i' = i + 1
    /\ UNCHANGED <<nlp_ner, current_user, pc, api_url, upstream, outbound, news_data, responses, nlpVars>>

\* perform_nlp_analysis raises: the exception leaves process_news_data and is
\* caught by except Exception, lines 201-202 and 227-228
ProcessRaises ==
    /\ pc = "process"
    /\ i < Len(news_data)
    /\ LET article_data == news_data[i + 1]
           content == ResolveContent(article_data)
       IN /\ Truthy(content)
          /\ \E clf \in HandlerClf, ner \in NerCallOutcomes(HandlerNer) :
               \E r \in perform_nlp_analysis(content, clf, ner) :
                 /\ r.raised
                 /\ nlpCalls' = Append(nlpCalls, NlpCall(i, content, clf, ner))
    /\ responses' = Append(responses, ErrorResponse(500, InternalPrefix, ExcStr))
    /\ pc' = "done"
    /\ UNCHANGED <<nlp_ner, current_user, api_url, upstream, outbound, news_data, i,
                   analyzed_articles, nlpVars>>

\* return analyzed_articles; return jsonify(analyzed_articles)
ProcessReturns ==
    /\ pc = "process"
    /\ i = Len(news_data)
    /\ responses' = Append(responses, Response(200, analyzed_articles))
    /\ pc' = "done"
    /\ UNCHANGED <<nlp_ner, current_user, api_url, upstream, outbound, news_data, i,
                   analyzed_articles, nlpCalls, nlpVars>>

\* The worker takes the next request; nothing is kept between requests
NextRequest ==
    /\ pc = "done"
    /\ pc' = "idle"
    /\ current_user' = Anonymous
    /\ api_url' = NoneV
    /\ upstream' = NoUpstream
    /\ outbound' = 0
    /\ news_data' = <<>>
    /\ i' = 0
    /\ analyzed_articles' = <<>>
    /\ nlpCalls' = <<>>
    /\ responses' = <<>>
    /\ UNCHANGED <<nlp_ner, nlpVars>>

NlpIdle == [text |-> <<>>, clf |-> Raise, ner |-> Raise]
NoOutcome == [pending |-> TRUE]

HandlerIdle ==
    /\ pc = "idle"
    /\ current_user = Anonymous
    /\ api_url = NoneV
    /\ upstream = NoUpstream
    /\ outbound = 0
    /\ news_data = <<>>
    /\ i = 0
    /\ analyzed_articles = <<>>
    /\ nlpCalls = <<>>
    /\ responses = <<>>

\* After import: the recognizer is loaded or, after OSError, None (lines 38-43)
Init ==
    /\ nlp_ner \in {NerModel, NoneV}
    /\ HandlerIdle
    /\ nlpIn = NlpIdle
    /\ nlpOut = NoOutcome

Next ==
    \/ AnalyzeTopicBegin
    \/ AnalyzeTopicUnauthorized
    \/ LatestNewsBegin
    \/ LatestNewsUnauthorized
    \/ GetRaises
    \/ GetHttpError
    \/ GetJsonError
    \/ GetNotOk
    \/ GetOk
    \/ ProcessSkip
    \/ ProcessAnalyze
    \/ ProcessRaises
    \/ ProcessReturns
    \/ NextRequest

Spec == Init /\ [][Next]_vars

----------------------------------------------------------------------------
(* perform_nlp_analysis on its own *)

LongText == [n \in 1..(MaxSentimentChars + 1) |-> "x"]
NlpTexts == {<<"c">>, LongText}

InitNlp ==
    /\ nlp_ner \in {NerModel, NoneV}
    /\ HandlerIdle
    /\ nlpIn \in {[text |-> t, clf |-> c, ner |-> n] :
                    t \in NlpTexts, c \in ClfOutcomes, n \in NerCallOutcomes(NerOutcomes)}
    /\ nlpOut = NoOutcome

\* perform_nlp_analysis(text) returns
NlpReturns ==
    /\ nlpOut = NoOutcome
    /\ \E r \in perform_nlp_analysis(nlpIn.text, nlpIn.clf, nlpIn.ner) :
         /\ ~r.raised
         /\ nlpOut' = [clf_input |-> SentimentInput(nlpIn.text), result |-> r]
    /\ UNCHANGED <<nlp_ner, current_user, handlerVars, nlpIn>>

\* perform_nlp_analysis(text) raises
NlpRaises ==
    /\ nlpOut = NoOutcome
    /\ \E r \in perform_nlp_analysis(nlpIn.text, nlpIn.clf, nlpIn.ner) :
         /\ r.raised
         /\ nlpOut' = [clf_input |-> SentimentInput(nlpIn.text), result |-> r]
    /\ UNCHANGED <<nlp_ner, current_user, handlerVars, nlpIn>>

NextNlp == NlpReturns \/ NlpRaises

SpecNlp == InitNlp /\ [][NextNlp]_vars

----------------------------------------------------------------------------
(* Properties of process_news_data and the handlers, checked under Spec *)

\* The request is answered, and with the list process_news_data returned
Answered == pc = "done" /\ Len(responses) = 1
AnsweredOk == Answered /\ responses[1].status = 200

\* The article has usable text: its content or its description is non-empty
HasText(article_data) ==
    Truthy(article_data.content) \/ Truthy(article_data.description)

\* The text of an article that has some: content when non-empty, else description
TextOf(article_data) ==
    IF Truthy(article_data.content) THEN article_data.content
    ELSE article_data.description

\* The 1-based positions in news of the articles with usable text, from n on
RECURSIVE SurvivorsFrom(_, _)
SurvivorsFrom(news, n) ==
    IF n > Len(news) THEN <<>>
    ELSE (IF HasText(news[n]) THEN <<n>> ELSE <<>>) \o SurvivorsFrom(news, n + 1)

Survivors == SurvivorsFrom(news_data, 1)

\* C1: process_news_data returns exactly one entry per input article whose
\* content or description is non-empty, in input order, and none for an
\* article with neither; an article with neither is never passed to
\* perform_nlp_analysis.
C1_OneEntryPerArticleWithText ==
    /\ \A n \in 1..Len(nlpCalls) : HasText(news_data[nlpCalls[n].index + 1])
    /\ AnsweredOk =>
         LET body == responses[1].body
         IN /\ Len(body) = Len(Survivors)
            /\ \A k \in 1..Len(body) :
                 LET article_data == news_data[Survivors[k]]
                 IN /\ body[k].title = article_data.title
                    /\ body[k].published_at = article_data.publishedAt
                    /\ body[k].content \in {article_data.content, article_data.description}
                    /\ Truthy(body[k].content)

\* C1 witness: an article without text was skipped, the one after it was emitted
C1_Witness ==
    /\ AnsweredOk
    /\ Len(news_data) = 2
    /\ ~HasText(news_data[1])
    /\ HasText(news_data[2])
    /\ Len(responses[1].body) = 1

\* C2 as stated: the id of the k-th emitted entry is k - 1, its 0-based
\* position in the filtered output.
C2_IdIsOutputPosition ==
    AnsweredOk =>
      \A k \in 1..Len(responses[1].body) : responses[1].body[k].id = k - 1

\* C2 amended: the id of each emitted entry is the 0-based position of its
\* article in the input list; so it is the position in the output only when
\* no earlier article was skipped.
C2_IdIsInputPosition ==
    AnsweredOk =>
      LET body == responses[1].body
      IN /\ Len(body) = Len(Survivors)
         /\ \A k \in 1..Len(body) :
              /\ body[k].id = Survivors[k] - 1
              /\ (body[k].id = k - 1) <=> (\A n \in 1..(Survivors[k] - 1) : HasText(news_data[n]))

\* C2 witness: the first article was skipped and the first entry has id 1
C2_Witness ==
    /\ AnsweredOk
    /\ Len(responses[1].body) >= 1
    /\ ~HasText(news_data[1])
    /\ responses[1].body[1].id = 1

\* C3: for every surviving article, the entry's content and the text handed
\* to perform_nlp_analysis are the article's content when that is non-empty,
\* and its description only when content is empty or missing.
C3_ContentBeforeDescription ==
    /\ Len(nlpCalls) >= Len(analyzed_articles)
    /\ \A n \in 1..Len(nlpCalls) :
         LET article_data == news_data[nlpCalls[n].index + 1]
         IN /\ nlpCalls[n].text = TextOf(article_data)
            /\ n <= Len(analyzed_articles) =>
                 /\ analyzed_articles[n].content = TextOf(article_data)
                 /\ analyzed_articles[n].content = nlpCalls[n].text
    /\ AnsweredOk => responses[1].body = analyzed_articles

\* C3 witness: an article with both content and description was emitted with
\* its content, and one with a description only with its description
C3_Witness ==
    /\ AnsweredOk
    /\ Len(responses[1].body) = 2
    /\ Truthy(news_data[1].content) /\ Truthy(news_data[1].description)
    /\ responses[1].body[1].content = news_data[1].content
    /\ ~Truthy(news_data[2].content)
    /\ responses[1].body[2].content = news_data[2].description

\* The recognizer call of a logged analysis raised
NerRaised(call) == nlp_ner /= NoneV /\ call.ner.raised

\* A logged analysis had a failing model call
CallFailed(call) == call.clf.raised \/ NerRaised(call)

\* The entry of a logged analysis is what its own model outcomes give
EntryOfCall(entry, call) ==
    /\ entry.id = call.index
    /\ entry.content = call.text
    /\ entry.sentiment = SentimentStage(call.clf)
    /\ Returned(entry.entities) \in EntityStage(call.ner)

\* C6 as stated: if the analysis of an article fails, by the sentiment call
\* or the recognizer call raising, the request still succeeds, the article is
\* emitted with default annotation and the other entries are as without it.
C6_AnyFailureIsIsolated ==
    (pc = "done" /\ \E n \in 1..Len(nlpCalls) : CallFailed(nlpCalls[n])) =>
      /\ AnsweredOk
      /\ Len(responses[1].body) = Len(nlpCalls)
      /\ \A n \in 1..Len(nlpCalls) :
           LET entry == responses[1].body[n]
               call == nlpCalls[n]
           IN /\ entry.id = call.index
              /\ entry.sentiment = SentimentStage(call.clf)
              /\ IF NerRaised(call) THEN entry.entities = EmptyEntities
                 ELSE Returned(entry.entities) \in EntityStage(call.ner)

\* C6 amended: a failing sentiment call degrades only its article: the
\* request still succeeds, the article is emitted with sentiment UNKNOWN 0.0
\* and its entities, and every other entry is as its own analysis gives it.
\* A raising recognizer call is not isolated: the request is answered 500
\* with the internal-error message and no articles.
C6_SentimentFailureIsIsolated ==
    (pc = "done" /\ nlpCalls /= <<>>) =>
      /\ Len(responses) = 1
      /\ IF \E n \in 1..Len(nlpCalls) : NerRaised(nlpCalls[n])
         THEN /\ responses[1] = ErrorResponse(500, InternalPrefix, ExcStr)
              /\ NerRaised(nlpCalls[Len(nlpCalls)])
         ELSE /\ responses[1].status = 200
              /\ Len(responses[1].body) = Len(nlpCalls)
              /\ \A n \in 1..Len(nlpCalls) :
                   /\ EntryOfCall(responses[1].body[n], nlpCalls[n])
                   /\ nlpCalls[n].clf.raised =>
                        responses[1].body[n].sentiment =
                          [label |-> "UNKNOWN", score |-> UnknownScore]

\* C6 witness: the sentiment call of the first article failed, the second
\* article was analyzed with a confident label, and both were returned
C6_Witness ==
    /\ AnsweredOk
    /\ Len(nlpCalls) = 2
    /\ nlpCalls[1].clf.raised
    /\ ~nlpCalls[2].clf.raised
    /\ Len(responses[1].body) = 2
    /\ responses[1].body[1].sentiment.label = "UNKNOWN"
    /\ responses[1].body[2].sentiment.label = "POSITIVE"

\* The news service answered with a JSON object whose status is not ok and
\* whose message is a string
UpstreamRejected ==
    /\ outbound = 1
    /\ ~upstream.raised
    /\ ~upstream.value.json.raised
    /\ Get(upstream.value.json.value, "status") /= OkStatus
    /\ "message" \in DOMAIN upstream.value.json.value
    /\ upstream.value.json.value.message /= NoneV

\* C7: when the news service answers with a payload whose status is not ok,
\* the response is 400 with body {"error": "News API Error: " + message}, and
\* no article is analyzed.
C7_RejectionIs400 ==
    (pc = "done" /\ UpstreamRejected) =>
      /\ Len(responses) = 1
      /\ responses[1] =
           Response(400, [error |-> NewsApiErrorPrefix \o upstream.value.json.value.message])
      /\ nlpCalls = <<>>

\* C10 as stated: every request makes exactly one outbound call and gets
\* exactly one response; when the call fails at the transport level it is not
\* retried, the analyzer is not invoked and the response is the 500
\* failed-to-connect error with no analyzed articles.
C10_EveryRequestOneCall ==
    /\ outbound <= 1
    /\ Len(responses) <= 1
    /\ pc = "done" => outbound = 1 /\ Len(responses) = 1
    /\ (pc = "done" /\ upstream.raised) =>
         /\ nlpCalls = <<>>
         /\ analyzed_articles = <<>>
         /\ responses[1] = ErrorResponse(500, ConnectPrefix, ExcStr)

\* C10 amended: every request of a logged-in user makes exactly one outbound
\* call and gets exactly one response; when the call fails at the transport
\* level it is not retried, the analyzer is not invoked and the response is
\* the 500 failed-to-connect error with no analyzed articles.  A request
\* without a login makes no outbound call, invokes no analyzer and gets
\* exactly one response, the redirect to the login view.
C10_OneCallPerAuthenticatedRequest ==
    /\ outbound <= 1
    /\ Len(responses) <= 1
    /\ pc \in {"idle", "get"} => outbound = 0 /\ responses = <<>>
    /\ pc = "process" => outbound = 1 /\ responses = <<>>
    /\ pc \in {"get", "process"} => current_user.is_authenticated
    /\ pc = "done" =>
         /\ Len(responses) = 1
         /\ IF current_user.is_authenticated
            THEN outbound = 1 /\ responses[1].status \in {200, 400, 500}
            ELSE /\ outbound = 0
                 /\ nlpCalls = <<>>
                 /\ responses[1] = Response(302, [redirect |-> <<"l", "o", "g", "i", "n">>])
    /\ (pc = "done" /\ upstream.raised) =>
         /\ nlpCalls = <<>>
         /\ analyzed_articles = <<>>
         /\ responses[1] = ErrorResponse(500, ConnectPrefix, ExcStr)

\* C10 witness: a logged-in user's call failed at the transport level and
\* was answered 500
C10_Witness ==
    /\ pc = "done"
    /\ current_user.is_authenticated
    /\ upstream.raised
    /\ outbound = 1
    /\ responses[1].status = 500

----------------------------------------------------------------------------
(* Properties of perform_nlp_analysis, checked under SpecNlp *)

NlpDone == nlpOut /= NoOutcome
NlpReturned == NlpDone /\ ~nlpOut.result.raised

\* C4: for a classifier result (label, score), the returned sentiment is
\* NEUTRAL when score < 0.95 and the raw label when score >= 0.95; the score
\* is the classifier's in both cases.
C4_NeutralBelowThreshold ==
    (NlpReturned /\ ~nlpIn.clf.raised) =>
      LET raw == nlpIn.clf.value
          sentiment == nlpOut.result.value.sentiment
      IN /\ sentiment.score = raw.score
         /\ raw.score < 950 => sentiment.label = "NEUTRAL"
         /\ raw.score >= 950 => sentiment.label = raw.label

\* C4 witness: a NEGATIVE at 0.949 was returned as NEUTRAL at 0.949
C4_Witness ==
    /\ NlpReturned
    /\ ~nlpIn.clf.raised
    /\ nlpIn.clf.value = [label |-> "NEGATIVE", score |-> 949]
    /\ nlpOut.result.value.sentiment = [label |-> "NEUTRAL", score |-> 949]

\* The strings the recognizer reported with type k
Reported(k) ==
    IF nlp_ner = NoneV THEN {}
    ELSE {nlpIn.ner.value[j].text :
            j \in {m \in 1..Len(nlpIn.ner.value) : nlpIn.ner.value[m].label_ = k}}

\* C5 as stated: whenever the classifier call fails, perform_nlp_analysis
\* returns normally with sentiment UNKNOWN 0.0.
C5_ClassifierFailureAlwaysReturns ==
    (NlpDone /\ nlpIn.clf.raised) =>
      /\ ~nlpOut.result.raised
      /\ nlpOut.result.value.sentiment = [label |-> "UNKNOWN", score |-> 0]

\* C5 amended: whenever the classifier call fails, its failure is absorbed
\* and the entities are still computed: perform_nlp_analysis returns sentiment
\* UNKNOWN 0.0 with the entities the recognizer reported, unless the
\* recognizer call itself raises, and then that exception leaves the function.
C5_ClassifierFailureAbsorbed ==
    (NlpDone /\ nlpIn.clf.raised) =>
      /\ nlpOut.result.raised <=> (nlp_ner /= NoneV /\ nlpIn.ner.raised)
      /\ ~nlpOut.result.raised =>
           /\ nlpOut.result.value.sentiment = [label |-> "UNKNOWN", score |-> 0]
           /\ \A k \in {"PERSON", "ORG", "GPE"} :
                Range(nlpOut.result.value.entities[k]) = Reported(k)

\* C5 witness: the classifier call failed and the result carries UNKNOWN and
\* a reported person
C5_Witness ==
    /\ NlpReturned
    /\ nlpIn.clf.raised
    /\ nlpOut.result.value.sentiment.label = "UNKNOWN"
    /\ nlpOut.result.value.entities.PERSON /= <<>>

\* C8: each returned entity list has no duplicate, the categories are exactly
\* PERSON, ORG and GPE, and a string is under a category exactly when the
\* recognizer reported an entity with that text and that type.
C8_EntitiesDistinctAndFiltered ==
    NlpReturned =>
      LET entities == nlpOut.result.value.entities
      IN /\ DOMAIN entities = {"PERSON", "ORG", "GPE"}
         /\ \A k \in DOMAIN entities :
              /\ \A a, b \in 1..Len(entities[k]) :
                   entities[k][a] = entities[k][b] => a = b
              /\ Range(entities[k]) = Reported(k)

\* C8 witness: the recognizer reported the same person twice and an entity
\* of another type; the person is listed once and the other entity nowhere
C8_Witness ==
    /\ NlpReturned
    /\ nlp_ner /= NoneV
    /\ \E a, b \in 1..Len(nlpIn.ner.value) :
         /\ a /= b
         /\ nlpIn.ner.value[a] = nlpIn.ner.value[b]
         /\ nlpIn.ner.value[a].label_ = "PERSON"
    /\ Len(nlpOut.result.value.entities.PERSON) = 1

\* C9: when nlp_ner is None, perform_nlp_analysis returns empty lists for
\* PERSON, ORG and GPE, does not raise, and returns the sentiment computed
\* for the text.
C9_NoRecognizerEmptyEntities ==
    (NlpDone /\ nlp_ner = NoneV) =>
      /\ ~nlpOut.result.raised
      /\ nlpOut.result.value.entities = [PERSON |-> <<>>, ORG |-> <<>>, GPE |-> <<>>]
      /\ IF nlpIn.clf.raised
         THEN nlpOut.result.value.sentiment = [label |-> "UNKNOWN", score |-> 0]
         ELSE /\ nlpOut.result.value.sentiment.score = nlpIn.clf.value.score
              /\ nlpOut.result.value.sentiment.label \in {nlpIn.clf.value.label, "NEUTRAL"}

\* C9 witness: without a recognizer a confident POSITIVE was returned
C9_Witness ==
    /\ NlpReturned
    /\ nlp_ner = NoneV
    /\ nlpOut.result.value.sentiment = [label |-> "POSITIVE", score |-> 970]
    /\ nlpOut.result.value.entities.PERSON = <<>>

====
